---- MODULE Spec2Model ----
(***************************************************************************)
(* A model of the matrix crate (src/src/lib.rs): the Dimensions shape      *)
(* type and the Matrix value type with its constructors, accessors,        *)
(* arithmetic operators and classification predicates.                     *)
(*                                                                         *)
(* A caller holds one Matrix (`matrix`) and makes one call at a time:       *)
(* `call` is the call that has just returned with its arguments, `ret`     *)
(* what it returned (a Matrix, a boolean, an error value, None, or a       *)
(* panic).  Continue takes the caller to its next statement.               *)
(***************************************************************************)
EXTENDS Integers, Sequences, FiniteSets, TLC

VARIABLES matrix, call, ret

vars == <<matrix, call, ret>>

(***************************************************************************)
(* Bounds of the model.                                                    *)
(***************************************************************************)
\* Largest row count, column count and entry count of a Matrix the caller
\* asks a constructor for.
MaxRows == 3
MaxCols == 3
MaxEntries == 4

\* Largest entry count of a square Matrix whose determinant is asked for.
MaxDetEntries == 9

(***************************************************************************)
(* f64.  A value is a pair <<n, d>>: the rational n/d in lowest terms with *)
(* d > 0, or a non-finite value with d = 0: <<1,0>> is +inf, <<-1,0>> is   *)
(* -inf and <<0,0>> is NaN.  Rounding and the sign of zero are left out.   *)
(***************************************************************************)
F(n) == <<n, 1>>

NaN == <<0, 0>>

Abs(n) == IF n < 0 THEN -n ELSE n

Sgn(n) == IF n < 0 THEN -1 ELSE IF n > 0 THEN 1 ELSE 0

RECURSIVE Gcd(_, _)
Gcd(a, b) == IF b = 0 THEN a ELSE Gcd(b, a % b)

Norm(n, d) ==
    IF d = 0 THEN <<Sgn(n), 0>>
    ELSE LET g == Gcd(Abs(n), Abs(d))
             s == Sgn(d)
         IN  <<(s * n) \div g, (s * d) \div g>>

\* a + b
FAdd(a, b) ==
    IF a[2] = 0 /\ b[2] = 0
    THEN (IF a = b THEN a ELSE NaN)
    ELSE Norm(a[1] * b[2] + b[1] * a[2], a[2] * b[2])

\* a * b
FMul(a, b) == Norm(a[1] * b[1], a[2] * b[2])

\* 1 / a
FRecip(a) ==
    IF a[1] = 0 THEN <<(IF a[2] = 0 THEN 0 ELSE 1), 0>>
    ELSE IF a[1] < 0 THEN <<-a[2], -a[1]>>
    ELSE <<a[2], a[1]>>

\* a / b
FDiv(a, b) == FMul(a, FRecip(b))

\* a - b
FSub(a, b) == FAdd(a, FMul(F(-1), b))

\* a == b (PartialEq of f64: NaN equals nothing)
FEq(a, b) == a # NaN /\ b # NaN /\ a = b

\* The f64 values the caller passes in, and the values a Matrix must hold
\* for the caller to go on calling with it.
Values == {F(-1), F(0), F(1)}

(***************************************************************************)
(* Dimensions                                                              *)
(***************************************************************************)
Square(len) == [tag |-> "Square", len |-> len]

Rectangle(rows, columns) == [tag |-> "Rectangle", rows |-> rows, columns |-> columns]

Dimensions_rows(self) == IF self.tag = "Rectangle" THEN self.rows ELSE self.len

Dimensions_columns(self) == IF self.tag = "Rectangle" THEN self.columns ELSE self.len

Dimensions_count(self) == Dimensions_rows(self) * Dimensions_columns(self)

\* transposed that forgets to swap the rows and columns of a Rectangle
Dimensions_transposed_unswapped(self) == self

Dimensions_transposed(self) ==
    IF self.tag = "Rectangle" THEN Rectangle(self.columns, self.rows) ELSE self

\* impl From<(usize, usize)> for Dimensions
Dimensions_from_pair(rows, columns) ==
    IF rows = columns THEN Square(rows) ELSE Rectangle(rows, columns)

\* impl From<usize> for Dimensions
Dimensions_from_len(len) == Square(len)

\* impl PartialEq for Dimensions
Dimensions_eq(self, other) ==
    IF self.tag = "Square" /\ other.tag = "Square" THEN self.len = other.len
    ELSE IF self.tag = "Rectangle" /\ other.tag = "Rectangle"
         THEN self.rows = other.rows /\ self.columns = other.columns
    ELSE FALSE

(***************************************************************************)
(* Matrix: constructors                                                    *)
(***************************************************************************)
Matrix(buffer, dimensions) == [buffer |-> buffer, dimensions |-> dimensions]

\* What a call returns.
RetMatrix(m) == [kind |-> "Matrix", matrix |-> m]
RetBool(b) == [kind |-> "Bool", flag |-> b]
RetErr(e) == [kind |-> "Err", err |-> e]
RetNone == [kind |-> "None"]
RetUnit == [kind |-> "Unit"]
Panic == [kind |-> "Panic"]

constant(dimensions, value) ==
    Matrix([k \in 1..Dimensions_count(dimensions) |-> value], dimensions)

zero(dimensions) == constant(dimensions, F(0))

\* set that takes the row count for the length of a row
set_row_stride(self, i, j, value) ==
    IF i >= Dimensions_rows(self.dimensions) \/ j >= Dimensions_columns(self.dimensions)
    THEN [ok |-> FALSE, panic |-> FALSE, self |-> self]
    ELSE LET index == (i * Dimensions_rows(self.dimensions)) + j
         IN  IF index >= Len(self.buffer)
             THEN [ok |-> FALSE, panic |-> TRUE, self |-> self]
             ELSE [ok |-> TRUE, panic |-> FALSE,
                   self |-> Matrix([self.buffer EXCEPT ![index + 1] = value],
                                   self.dimensions)]

\* Matrix::set: the boolean returned and the receiver afterwards.
\* Indices are 0-based as in the source; sequences are 1-based.
set(self, i, j, value) ==
    IF i >= Dimensions_rows(self.dimensions) \/ j >= Dimensions_columns(self.dimensions)
    THEN [ok |-> FALSE, panic |-> FALSE, self |-> self]
    ELSE LET index == (i * Dimensions_columns(self.dimensions)) + j
         IN  IF index >= Len(self.buffer)
             THEN [ok |-> FALSE, panic |-> TRUE, self |-> self]
             ELSE [ok |-> TRUE, panic |-> FALSE,
                   self |-> Matrix([self.buffer EXCEPT ![index + 1] = value],
                                   self.dimensions)]

RECURSIVE diagonal_loop(_, _, _)
diagonal_loop(result, main_diagonal, index) ==
    IF index >= Len(main_diagonal) THEN result
    ELSE diagonal_loop(set(result, index, index, main_diagonal[index + 1]).self,
                       main_diagonal, index + 1)

diagonal(main_diagonal) ==
    diagonal_loop(zero(Dimensions_from_len(Len(main_diagonal))), main_diagonal, 0)

scalar(value, size) == diagonal([k \in 1..size |-> value])

identity(size) == diagonal([k \in 1..size |-> F(1)])

\* from_buffer without its length test: any buffer under any dimensions
from_buffer_unchecked(buffer, dimensions) == RetMatrix(Matrix(buffer, dimensions))

\* Matrix::from_buffer
from_buffer(buffer, dimensions) ==
    IF Len(buffer) # Dimensions_count(dimensions)
    THEN RetErr("DimensionsIncorrct")
    ELSE RetMatrix(Matrix(buffer, dimensions))

RECURSIVE concat(_)
concat(seqs) == IF seqs = <<>> THEN <<>> ELSE Head(seqs) \o concat(Tail(seqs))

\* itertools all_equal over the row lengths (true of an empty iterator)
all_equal_len(collection) ==
    \A a, b \in 1..Len(collection) : Len(collection[a]) = Len(collection[b])

\* impl TryFrom<Vec<Vec<f64>>> for Matrix
try_from(collection) ==
    IF ~all_equal_len(collection) THEN RetErr("DimensionsIncorrct")
    ELSE IF Len(collection) = 0 THEN Panic
    ELSE RetMatrix(Matrix(concat(collection),
                          Dimensions_from_pair(Len(collection), Len(collection[1]))))

(***************************************************************************)
(* Matrix: element access                                                  *)
(***************************************************************************)
Some(v) == [kind |-> "Some", value |-> v]

\* slice::chunks_exact(chunk_size) for chunk_size > 0: the whole chunks only
chunks_exact(buffer, chunk_size) ==
    [k \in 1..(Len(buffer) \div chunk_size) |->
        SubSeq(buffer, (k - 1) * chunk_size + 1, k * chunk_size)]

\* chunks_exact panics when the chunk size is zero
rows_panics(self) == Dimensions_columns(self.dimensions) = 0

\* Matrix::rows, when it does not panic
rows(self) == chunks_exact(self.buffer, Dimensions_columns(self.dimensions))

\* iter().skip(skip).step_by(step) for step > 0
skip_step_by(buffer, skip, step) ==
    LET n == IF Len(buffer) > skip THEN ((Len(buffer) - skip - 1) \div step) + 1 ELSE 0
    IN  [k \in 1..n |-> buffer[skip + (k - 1) * step + 1]]

\* Matrix::columns
columns(self) ==
    LET cols == Dimensions_columns(self.dimensions)
    IN  [col_idx \in 1..cols |-> skip_step_by(self.buffer, col_idx - 1, cols)]

\* Matrix::get
get(self, i, j) ==
    IF i >= Dimensions_rows(self.dimensions) \/ j >= Dimensions_columns(self.dimensions)
    THEN RetNone
    ELSE LET index == (i * Dimensions_columns(self.dimensions)) + j
         IN  IF index < Len(self.buffer) THEN Some(self.buffer[index + 1]) ELSE RetNone

\* Matrix::row
row(self, n) ==
    IF n >= Dimensions_rows(self.dimensions) THEN RetNone
    ELSE IF rows_panics(self) THEN Panic
    ELSE IF n < Len(rows(self)) THEN Some(rows(self)[n + 1]) ELSE RetNone

\* Matrix::column
column(self, n) ==
    IF n >= Dimensions_columns(self.dimensions) THEN RetNone
    ELSE IF n < Len(columns(self)) THEN Some(columns(self)[n + 1]) ELSE RetNone

\* Matrix::is_square
is_square(self) == self.dimensions.tag = "Square"

\* Matrix::main_diagonal: None, a panic (unwrap of an absent entry), or the entries
main_diagonal(self) ==
    IF ~is_square(self) THEN RetNone
    ELSE LET n == Dimensions_rows(self.dimensions)
         IN  IF \E index \in 0..(n - 1) : get(self, index, index).kind = "None"
             THEN Panic
             ELSE Some([k \in 1..n |-> get(self, k - 1, k - 1).value])

\* Matrix::secondary_diagonal: None, a panic (rows() - 1 below zero, or
\* unwrap of an absent entry), or the entries
secondary_diagonal(self) ==
    IF ~is_square(self) THEN RetNone
    ELSE LET n == Dimensions_rows(self.dimensions)
             last_index == n - 1
         IN  IF n = 0 THEN Panic
             ELSE IF \E index \in 0..last_index :
                         get(self, index, last_index - index).kind = "None"
                  THEN Panic
                  ELSE Some([k \in 1..n |-> get(self, k - 1, last_index - (k - 1)).value])

\* iter().fold(1f64, |value, &item| value * item)
RECURSIVE fold_product(_)
fold_product(items) ==
    IF items = <<>> THEN F(1)
    ELSE FMul(fold_product(SubSeq(items, 1, Len(items) - 1)), items[Len(items)])

\* iter().sum() of f64
RECURSIVE sum(_)
sum(items) ==
    IF items = <<>> THEN F(0)
    ELSE FAdd(sum(SubSeq(items, 1, Len(items) - 1)), items[Len(items)])

\* buffer.iter().enumerate().skip(dimensions).filter(|(i, _)| i % dimensions != index):
\* the items at the 0-based positions from i on that are not in column index
RECURSIVE remaining_buffer(_, _, _, _)
remaining_buffer(buffer, i, dimensions, index) ==
    IF i >= Len(buffer) THEN <<>>
    ELSE (IF i % dimensions # index THEN <<buffer[i + 1]>> ELSE <<>>)
         \o remaining_buffer(buffer, i + 1, dimensions, index)

\* if index % 2 == 0 { 1.0 } else { -1.0 }
cofactor_sign(index) == IF index % 2 = 0 THEN F(1) ELSE F(-1)

\* Matrix::determinant_unoptimized: None, Some(value), or a panic (an unwrap)
RECURSIVE determinant_unoptimized(_)
determinant_unoptimized(self) ==
    IF ~is_square(self) THEN RetNone
    ELSE LET dimensions == Dimensions_rows(self.dimensions)
         IN  CASE dimensions = 0 -> Some(F(0))
               [] dimensions = 1 ->
                      (IF get(self, 0, 0).kind = "Some" THEN get(self, 0, 0) ELSE Panic)
               [] dimensions = 2 ->
                      (IF main_diagonal(self).kind # "Some"
                          \/ secondary_diagonal(self).kind # "Some"
                       THEN Panic
                       ELSE Some(FSub(fold_product(main_diagonal(self).value),
                                      fold_product(secondary_diagonal(self).value))))
               [] OTHER ->
                      LET r1 == row(self, 0)
                          remaining_matrix(index) ==
                              from_buffer(remaining_buffer(self.buffer, dimensions,
                                                           dimensions, index),
                                          Square(dimensions - 1))
                          minor(index) ==
                              IF remaining_matrix(index).kind # "Matrix" THEN Panic
                              ELSE determinant_unoptimized(remaining_matrix(index).matrix)
                      IN  IF r1.kind # "Some" THEN Panic
                          ELSE IF \E index \in 0..(Len(r1.value) - 1) :
                                      minor(index).kind # "Some"
                               THEN Panic
                               ELSE Some(sum([k \in 1..Len(r1.value) |->
                                       FMul(FMul(r1.value[k], minor(k - 1).value),
                                            cofactor_sign(k - 1))]))

(***************************************************************************)
(* Matrix: manipulation                                                    *)
(***************************************************************************)
\* Matrix::transpose: the receiver afterwards, or a panic (unwrap of an Err)
transpose(self) ==
    from_buffer(concat(columns(self)), Dimensions_transposed(self.dimensions))

\* Matrix::transposed
transposed(self) == transpose(self)

(***************************************************************************)
(* Matrix: properties                                                      *)
(***************************************************************************)
is_same_size(self, other) == Dimensions_eq(self.dimensions, other.dimensions)

is_column(self) == Dimensions_columns(self.dimensions) = 1

is_row(self) == Dimensions_rows(self.dimensions) = 1

\* Vec<f64> == Vec<f64>
buffer_eq(a, b) == Len(a) = Len(b) /\ \A k \in 1..Len(a) : FEq(a[k], b[k])

\* impl PartialEq for Matrix
eq(self, other) == buffer_eq(self.buffer, other.buffer) /\ is_same_size(self, other)

is_diagonal(self) ==
    IF ~is_square(self) THEN FALSE
    ELSE LET divisor == Dimensions_columns(self.dimensions) + 1
         IN  \A index \in 0..(Len(self.buffer) - 1) :
                 index % divisor = 0 \/ FEq(self.buffer[index + 1], F(0))

\* is_scalar returns a bool or panics (unwrap of main_diagonal)
is_scalar(self) ==
    IF ~is_diagonal(self) THEN RetBool(FALSE)
    ELSE LET d == main_diagonal(self)
         IN  IF d.kind # "Some" THEN Panic
             ELSE IF Len(d.value) > 0 /\ \A k \in 1..Len(d.value) : FEq(d.value[k], d.value[1])
                  THEN RetBool(FEq(d.value[1], F(1)))
                  ELSE RetBool(FALSE)

\* rows().iter().rev().enumerate(): the i-th item (from 0) is the row
\* Len(rs) - i, of which skip(size - i) leaves the items after the first
\* size - i.  size - i underflows when there are more than size + 1 rows.
is_upper_triangular(self) ==
    IF ~is_square(self) THEN RetBool(FALSE)
    ELSE IF rows_panics(self) THEN Panic
    ELSE LET size == Dimensions_rows(self.dimensions)
             rs == rows(self)
         IN  IF Len(rs) > size + 1 THEN Panic
             ELSE RetBool(\A i \in 0..(Len(rs) - 1) :
                            \A k \in (size - i + 1)..Len(rs[Len(rs) - i]) :
                                FEq(rs[Len(rs) - i][k], F(0)))

\* rows().iter().enumerate(): of row i, skip(i + 1) leaves the items after
\* the first i + 1
is_lower_triangular(self) ==
    IF ~is_square(self) THEN RetBool(FALSE)
    ELSE IF rows_panics(self) THEN Panic
    ELSE LET rs == rows(self)
         IN  RetBool(\A i \in 0..(Len(rs) - 1) :
                        \A k \in (i + 2)..Len(rs[i + 1]) : FEq(rs[i + 1][k], F(0)))

is_identity(self) == eq(self, identity(Dimensions_rows(self.dimensions)))

(***************************************************************************)
(* Matrix: operators                                                       *)
(***************************************************************************)
\* impl ops::Mul<f64> for Matrix
mul_scalar(self, rhs) ==
    Matrix([k \in 1..Len(self.buffer) |-> FMul(self.buffer[k], rhs)], self.dimensions)

\* impl ops::Mul<Matrix> for f64
scalar_mul(self, rhs) == mul_scalar(rhs, self)

Min(a, b) == IF a < b THEN a ELSE b

\* zip(first, second).map(a * b).sum()
RECURSIVE dot_product(_, _)
dot_product(first, second) ==
    LET n == Min(Len(first), Len(second))
    IN  IF n = 0 THEN F(0)
        ELSE FAdd(dot_product(SubSeq(first, 1, n - 1), SubSeq(second, 1, n - 1)),
                  FMul(first[n], second[n]))

\* impl ops::Mul for Matrix: None, a panic (an unwrap, or rows() panicking),
\* or the product
mul(self, other) ==
    IF Dimensions_columns(self.dimensions) # Dimensions_rows(other.dimensions)
    THEN RetNone
    ELSE LET self_rows == Dimensions_rows(self.dimensions)
             other_columns == Dimensions_columns(other.dimensions)
         IN  IF \E self_i \in 0..(self_rows - 1), other_j \in 0..(other_columns - 1) :
                    row(self, self_i).kind # "Some" \/ column(other, other_j).kind # "Some"
             THEN Panic
             ELSE RetMatrix(Matrix(
                      [k \in 1..(self_rows * other_columns) |->
                          dot_product(row(self, (k - 1) \div other_columns).value,
                                      column(other, (k - 1) % other_columns).value)],
                      Dimensions_from_pair(self_rows, other_columns)))

\* impl ops::Div<f64> for Matrix
div(self, rhs) ==
    Matrix([k \in 1..Len(self.buffer) |-> FDiv(self.buffer[k], rhs)], self.dimensions)

\* impl ops::Add for Matrix: a panic (the assert!) or the sum
add(self, other) ==
    IF ~is_same_size(self, other) THEN Panic
    ELSE RetMatrix(Matrix(
             [k \in 1..Min(Len(self.buffer), Len(other.buffer)) |->
                 FAdd(self.buffer[k], other.buffer[k])],
             self.dimensions))

\* impl ops::Neg for Matrix
neg(self) == mul_scalar(self, F(-1))

\* impl ops::Sub for Matrix
sub(self, other) == add(self, neg(other))

(***************************************************************************)
(* The caller: what it passes in                                           *)
(***************************************************************************)
Seqs(S, n) == UNION {[1..k -> S] : k \in 0..n}

DimensionsSet ==
    {d \in {Square(n) : n \in 0..MaxRows} \cup
           {Rectangle(r, c) : r \in 0..MaxRows, c \in 0..MaxCols} :
        Dimensions_count(d) <= MaxEntries}

Sizes == {n \in 0..MaxRows : n * n <= MaxEntries}

Diagonals == {vs \in Seqs(Values, MaxRows) : Len(vs) \in Sizes}

\* Nested rows of equal length, with every choice of entries.
EqualRows ==
    UNION {{[i \in 1..p[1] |-> [j \in 1..p[2] |-> b[(i - 1) * p[2] + j]]] :
               b \in [1..(p[1] * p[2]) -> Values]} :
              p \in {q \in (0..MaxRows) \X (0..MaxCols) : q[1] * q[2] <= MaxEntries}}

RECURSIVE Sum(_)
Sum(ls) == IF ls = <<>> THEN 0 ELSE Head(ls) + Sum(Tail(ls))

\* Nested rows of unequal length; they are told apart by their lengths.
RaggedRows ==
    {[i \in 1..Len(ls) |-> [j \in 1..ls[i] |-> F(0)]] :
        ls \in {l \in Seqs(0..MaxCols, MaxRows) :
                   Sum(l) <= MaxEntries /\ \E a, b \in 1..Len(l) : l[a] # l[b]}}

Collections == EqualRows \cup RaggedRows

\* Buffers of every length up to one more than any Dimensions here counts.
Buffers == {[k \in 1..n |-> v] : n \in 0..(MaxEntries + 1), v \in Values}

\* The other operand of a binary operator: a Matrix built by a constructor.
Operands ==
    {constant(d, v) : d \in DimensionsSet, v \in Values} \cup
    {diagonal(vs) : vs \in Diagonals} \cup
    {try_from(c).matrix : c \in {x \in EqualRows : try_from(x).kind = "Matrix"}}

\* The caller goes on calling with a Matrix of at most MaxEntries entries:
\* entries among Values, or entries all infinite or NaN (what a division by
\* 0.0 returns).
InDomain(m) ==
    /\ Len(m.buffer) <= MaxEntries
    /\ \/ \A k \in 1..Len(m.buffer) : m.buffer[k] \in Values
       \/ \A k \in 1..Len(m.buffer) : m.buffer[k][2] = 0

NoCall == [op |-> "none"]

\* The caller is between two calls.
Idle == call = NoCall

\* The caller's Matrix after a call that returns a Matrix by value.
Bind(r) == IF r.kind = "Matrix" THEN r.matrix ELSE matrix

(***************************************************************************)
(* Init and the calls                                                      *)
(***************************************************************************)
\* The caller starts with the Matrix that Matrix::identity(2) returned.
Init ==
    /\ matrix = identity(2)
    /\ call = [op |-> "identity", size |-> 2]
    /\ ret = RetMatrix(identity(2))

\* The caller drops what the call returned and goes on with its Matrix; a
\* panic ends the program.
Continue ==
    /\ ~Idle
    /\ ret.kind # "Panic"
    /\ InDomain(matrix)
    /\ call' = NoCall
    /\ ret' = RetUnit
    /\ matrix' = matrix

Constant(d, v) ==
    /\ Idle
    /\ call' = [op |-> "constant", dimensions |-> d, value |-> v]
    /\ ret' = RetMatrix(constant(d, v))
    /\ matrix' = Bind(ret')

Zero(d) ==
    /\ Idle
    /\ call' = [op |-> "zero", dimensions |-> d]
    /\ ret' = RetMatrix(zero(d))
    /\ matrix' = Bind(ret')

Diagonal(vs) ==
    /\ Idle
    /\ call' = [op |-> "diagonal", main_diagonal |-> vs]
    /\ ret' = RetMatrix(diagonal(vs))
    /\ matrix' = Bind(ret')

Scalar(v, n) ==
    /\ Idle
    /\ call' = [op |-> "scalar", value |-> v, size |-> n]
    /\ ret' = RetMatrix(scalar(v, n))
    /\ matrix' = Bind(ret')

Identity(n) ==
    /\ Idle
    /\ call' = [op |-> "identity", size |-> n]
    /\ ret' = RetMatrix(identity(n))
    /\ matrix' = Bind(ret')

TryFrom(c) ==
    /\ Idle
    /\ call' = [op |-> "try_from", collection |-> c]
    /\ ret' = try_from(c)
    /\ matrix' = Bind(ret')

FromBuffer(b, d) ==
    /\ Idle
    /\ call' = [op |-> "from_buffer", buffer |-> b, dimensions |-> d]
    /\ ret' = from_buffer(b, d)
    /\ matrix' = Bind(ret')

Set(i, j, v) ==
    /\ Idle /\ InDomain(matrix)
    /\ call' = [op |-> "set", self |-> matrix, i |-> i, j |-> j, value |-> v]
    /\ LET r == set(matrix, i, j, v)
       IN  /\ ret' = (IF r.panic THEN Panic ELSE RetBool(r.ok))
           /\ matrix' = r.self

\* matrix.get(i, j)
Get(i, j) ==
    /\ Idle /\ InDomain(matrix)
    /\ call' = [op |-> "get", self |-> matrix, i |-> i, j |-> j]
    /\ ret' = get(matrix, i, j)
    /\ matrix' = matrix

\* matrix.determinant_unoptimized()
Determinant ==
    /\ Idle
    /\ call' = [op |-> "determinant_unoptimized", self |-> matrix]
    /\ ret' = determinant_unoptimized(matrix)
    /\ matrix' = matrix

Transpose ==
    /\ Idle /\ InDomain(matrix)
    /\ call' = [op |-> "transpose", self |-> matrix]
    /\ LET r == transpose(matrix)
       IN  /\ ret' = (IF r.kind = "Matrix" THEN RetUnit ELSE Panic)
           /\ matrix' = Bind(r)

Transposed ==
    /\ Idle /\ InDomain(matrix)
    /\ call' = [op |-> "transposed", self |-> matrix]
    /\ ret' = (IF transposed(matrix).kind = "Matrix" THEN transposed(matrix) ELSE Panic)
    /\ matrix' = matrix

\* matrix + o
Add(o) ==
    /\ Idle /\ InDomain(matrix)
    /\ call' = [op |-> "add", self |-> matrix, other |-> o]
    /\ ret' = add(matrix, o)
    /\ matrix' = Bind(ret')

\* matrix - o
Sub(o) ==
    /\ Idle /\ InDomain(matrix)
    /\ call' = [op |-> "sub", self |-> matrix, other |-> o]
    /\ ret' = sub(matrix, o)
    /\ matrix' = Bind(ret')

Neg ==
    /\ Idle /\ InDomain(matrix)
    /\ call' = [op |-> "neg", self |-> matrix]
    /\ ret' = RetMatrix(neg(matrix))
    /\ matrix' = Bind(ret')

\* matrix * rhs
MulScalar(rhs) ==
    /\ Idle /\ InDomain(matrix)
    /\ call' = [op |-> "mul_scalar", self |-> matrix, rhs |-> rhs]
    /\ ret' = RetMatrix(mul_scalar(matrix, rhs))
    /\ matrix' = Bind(ret')

\* lhs * matrix
ScalarMul(lhs) ==
    /\ Idle /\ InDomain(matrix)
    /\ call' = [op |-> "scalar_mul", lhs |-> lhs, matrix |-> matrix]
    /\ ret' = RetMatrix(scalar_mul(lhs, matrix))
    /\ matrix' = Bind(ret')

\* matrix / rhs
Div(rhs) ==
    /\ Idle /\ InDomain(matrix)
    /\ call' = [op |-> "div", self |-> matrix, rhs |-> rhs]
    /\ ret' = RetMatrix(div(matrix, rhs))
    /\ matrix' = Bind(ret')

\* matrix * o, or o * matrix
Mul(o, swap) ==
    /\ Idle /\ InDomain(matrix)
    /\ LET a == IF swap THEN o ELSE matrix
           b == IF swap THEN matrix ELSE o
       IN  /\ call' = [op |-> "mul", self |-> a, other |-> b]
           /\ ret' = mul(a, b)
    /\ matrix' = Bind(ret')

\* matrix == o
Eq(o) ==
    /\ Idle /\ InDomain(matrix)
    /\ call' = [op |-> "eq", self |-> matrix, other |-> o]
    /\ ret' = RetBool(eq(matrix, o))
    /\ matrix' = matrix

IsSameSize(o) ==
    /\ Idle /\ InDomain(matrix)
    /\ call' = [op |-> "is_same_size", self |-> matrix, other |-> o]
    /\ ret' = RetBool(is_same_size(matrix, o))
    /\ matrix' = matrix

IsColumn ==
    /\ Idle /\ InDomain(matrix)
    /\ call' = [op |-> "is_column", self |-> matrix]
    /\ ret' = RetBool(is_column(matrix))
    /\ matrix' = matrix

IsRow ==
    /\ Idle /\ InDomain(matrix)
    /\ call' = [op |-> "is_row", self |-> matrix]
    /\ ret' = RetBool(is_row(matrix))
    /\ matrix' = matrix

IsSquare ==
    /\ Idle /\ InDomain(matrix)
    /\ call' = [op |-> "is_square", self |-> matrix]
    /\ ret' = RetBool(is_square(matrix))
    /\ matrix' = matrix

IsScalar ==
    /\ Idle /\ InDomain(matrix)
    /\ call' = [op |-> "is_scalar", self |-> matrix]
    /\ ret' = is_scalar(matrix)
    /\ matrix' = matrix

IsUpperTriangular ==
    /\ Idle /\ InDomain(matrix)
    /\ call' = [op |-> "is_upper_triangular", self |-> matrix]
    /\ ret' = is_upper_triangular(matrix)
    /\ matrix' = matrix

IsLowerTriangular ==
    /\ Idle /\ InDomain(matrix)
    /\ call' = [op |-> "is_lower_triangular", self |-> matrix]
    /\ ret' = is_lower_triangular(matrix)
    /\ matrix' = matrix

IsDiagonal ==
    /\ Idle /\ InDomain(matrix)
    /\ call' = [op |-> "is_diagonal", self |-> matrix]
    /\ ret' = RetBool(is_diagonal(matrix))
    /\ matrix' = matrix

IsIdentity ==
    /\ Idle /\ InDomain(matrix)
    /\ call' = [op |-> "is_identity", self |-> matrix]
    /\ ret' = RetBool(is_identity(matrix))
    /\ matrix' = matrix

\* Only a caller between two calls makes one.
Next ==
    \/ Continue
    \/ Idle /\ \E d \in DimensionsSet, v \in Values : Constant(d, v)
    \/ Idle /\ \E d \in DimensionsSet : Zero(d)
    \/ Idle /\ \E vs \in Diagonals : Diagonal(vs)
    \/ Idle /\ \E v \in Values, n \in Sizes : Scalar(v, n)
    \/ Idle /\ \E n \in Sizes : Identity(n)
    \/ Idle /\ \E c \in Collections : TryFrom(c)
    \/ Idle /\ \E b \in Buffers, d \in DimensionsSet : FromBuffer(b, d)
    \/ Idle /\ \E i \in 0..MaxRows, j \in 0..MaxCols, v \in Values : Set(i, j, v)
    \/ Idle /\ \E i \in 0..MaxRows, j \in 0..MaxCols : Get(i, j)
    \/ Idle /\ Determinant
    \/ Idle /\ Transpose
    \/ Idle /\ Transposed
    \/ Idle /\ \E o \in Operands : Add(o)
    \/ Idle /\ \E o \in Operands : Sub(o)
    \/ Idle /\ Neg
    \/ Idle /\ \E rhs \in Values : MulScalar(rhs)
    \/ Idle /\ \E lhs \in Values : ScalarMul(lhs)
    \/ Idle /\ \E rhs \in Values : Div(rhs)
    \/ Idle /\ \E o \in Operands, swap \in BOOLEAN : Mul(o, swap)
    \/ Idle /\ \E o \in Operands : Eq(o)
    \/ Idle /\ \E o \in Operands : IsSameSize(o)
    \/ Idle /\ IsColumn
    \/ Idle /\ IsRow
    \/ Idle /\ IsSquare
    \/ Idle /\ IsScalar
    \/ Idle /\ IsUpperTriangular
    \/ Idle /\ IsLowerTriangular
    \/ Idle /\ IsDiagonal
    \/ Idle /\ IsIdentity

Spec == Init /\ [][Next]_vars

(***************************************************************************)
(* determinant_unoptimized as a function of its receiver: the caller       *)
(* starts with any square Matrix of at most MaxDetEntries entries in       *)
(* Values (try_from builds each of them), any operand, or an operand       *)
(* divided by 0.0, and asks for its determinant.                           *)
(***************************************************************************)
DetSizes == {n \in 0..MaxDetEntries : n * n <= MaxDetEntries}

DetOperands ==
    UNION {{Matrix(b, Square(n)) : b \in [1..(n * n) -> Values]} : n \in DetSizes}
    \cup Operands
    \cup {div(o, F(0)) : o \in Operands}

InitDet ==
    /\ matrix \in DetOperands
    /\ call = NoCall
    /\ ret = RetUnit

NextDet ==
    \/ Continue
    \/ Idle /\ Determinant

SpecDet == InitDet /\ [][NextDet]_vars

(***************************************************************************)
(* Properties                                                              *)
(***************************************************************************)
\* Shape and entries of a Matrix as the specification speaks of them:
\* entry (i, j), counted from 0, is stored row-major.
Rows(m) == Dimensions_rows(m.dimensions)

Cols(m) == Dimensions_columns(m.dimensions)

Entry(m, i, j) == m.buffer[i * Cols(m) + j + 1]

SameShape(a, b) == Rows(a) = Rows(b) /\ Cols(a) = Cols(b)

LengthMatches(m) == Len(m.buffer) = Rows(m) * Cols(m)

\* C1: every Matrix the caller holds or is handed satisfies
\* buffer.length = dimensions.rows() * dimensions.columns().
C1_BufferLengthMatchesDimensions ==
    /\ LengthMatches(matrix)
    /\ ret.kind = "Matrix" => LengthMatches(ret.matrix)

\* C1 witness: transpose has rebuilt a 1 x 3 Matrix into a 3 x 1 one.
C1_Witness ==
    /\ call.op = "transpose"
    /\ Rows(call.self) = 1 /\ Cols(call.self) = 3
    /\ Rows(matrix) = 3 /\ Cols(matrix) = 1
    /\ Len(matrix.buffer) = 3

\* C2: Dimensions equality is semantic: is_same_size is true exactly when
\* the rows() and the columns() of the two dimensions agree, so that
\* Square(n) and Rectangle{n, n} compare equal in both orders.
C2_DimensionsEqualityIsSemantic ==
    call.op = "is_same_size" =>
        ret.flag = SameShape(call.self, call.other)

\* C3: conversion from nested rows never panics: it returns the
\* dimension-mismatch error when there is no row or the row lengths differ,
\* and otherwise the Matrix of the rows concatenated in order, with
\* dimensions (row count, row length).
C3_TryFromNeverPanics ==
    call.op = "try_from" =>
        LET c == call.collection
        IN  IF Len(c) = 0 \/ \E a, b \in 1..Len(c) : Len(c[a]) # Len(c[b])
            THEN ret.kind = "Err" /\ ret.err = "DimensionsIncorrct"
            ELSE /\ ret.kind = "Matrix"
                 /\ ret.matrix.buffer = concat(c)
                 /\ Rows(ret.matrix) = Len(c)
                 /\ Cols(ret.matrix) = Len(c[1])

\* C4: add of two matrices of unequal shape returns the dimension-mismatch
\* error and never panics; of equal shape it returns a Matrix of that shape
\* whose entry (i, j) is the sum of the operands' entries (i, j).
C4_AddReportsMismatch ==
    call.op = "add" =>
        IF ~SameShape(call.self, call.other)
        THEN ret.kind = "Err" /\ ret.err = "DimensionsIncorrct"
        ELSE /\ ret.kind = "Matrix"
             /\ SameShape(ret.matrix, call.self)
             /\ \A i \in 0..(Rows(call.self) - 1), j \in 0..(Cols(call.self) - 1) :
                    Entry(ret.matrix, i, j) =
                        FAdd(Entry(call.self, i, j), Entry(call.other, i, j))

\* The sum over k < n of a's entry (i, k) times b's entry (k, j).
RECURSIVE RowByColumn(_, _, _, _, _)
RowByColumn(a, b, i, j, n) ==
    IF n = 0 THEN F(0)
    ELSE FAdd(RowByColumn(a, b, i, j, n - 1),
              FMul(Entry(a, i, n - 1), Entry(b, n - 1, j)))

\* C5: A * B returns None, without panicking, exactly when
\* A.columns # B.rows; otherwise it returns a Matrix of shape
\* (A.rows, B.columns) whose entry (i, j) is the dot product of row i of A
\* and column j of B.
C5_MulIsRowByColumn ==
    call.op = "mul" =>
        IF Cols(call.self) # Rows(call.other)
        THEN ret.kind = "None"
        ELSE /\ ret.kind = "Matrix"
             /\ Rows(ret.matrix) = Rows(call.self)
             /\ Cols(ret.matrix) = Cols(call.other)
             /\ \A i \in 0..(Rows(call.self) - 1), j \in 0..(Cols(call.other) - 1) :
                    Entry(ret.matrix, i, j) =
                        RowByColumn(call.self, call.other, i, j, Cols(call.self))

\* C6: whatever the tag of M's dimensions, M * identity(M.columns) and
\* identity(M.rows) * M succeed and compare equal (Matrix ==) to M.
C6_IdentityIsNeutral ==
    call.op = "mul" =>
        /\ call.other = identity(Cols(call.self)) =>
               ret.kind = "Matrix" /\ eq(ret.matrix, call.self)
        /\ call.self = identity(Rows(call.other)) =>
               ret.kind = "Matrix" /\ eq(ret.matrix, call.other)

\* C7: division of a Matrix by the zero scalar fails with the
\* division-by-zero error instead of returning a Matrix; division by a
\* non-zero scalar returns the elementwise quotient, dimensions unchanged.
C7_DivByZeroFails ==
    call.op = "div" =>
        IF call.rhs = F(0)
        THEN ret.kind = "Err" /\ ret.err = "DividedByZero"
        ELSE /\ ret.kind = "Matrix"
             /\ ret.matrix.dimensions = call.self.dimensions
             /\ Len(ret.matrix.buffer) = Len(call.self.buffer)
             /\ \A k \in 1..Len(call.self.buffer) :
                    FMul(ret.matrix.buffer[k], call.rhs) = call.self.buffer[k]

BelowDiagonalZero(m) ==
    \A i \in 0..(Rows(m) - 1), j \in 0..(Cols(m) - 1) : i > j => Entry(m, i, j) = F(0)

AboveDiagonalZero(m) ==
    \A i \in 0..(Rows(m) - 1), j \in 0..(Cols(m) - 1) : i < j => Entry(m, i, j) = F(0)

\* C8: on a square matrix is_upper_triangular is true iff every entry
\* below the main diagonal (row > column) is 0 and is_lower_triangular is
\* true iff every entry above it (row < column) is 0; both are false on a
\* matrix that is not square.  The square matrices are taken here to be the
\* ones is_square() holds of, with at least one row: the tag of the
\* dimensions (C2) and the 0 x 0 matrix (C10) play no part.
C8_TriangularPredicates ==
    /\ call.op = "is_upper_triangular" =>
           /\ Rows(call.self) # Cols(call.self) => ret.kind = "Bool" /\ ~ret.flag
           /\ (is_square(call.self) /\ Rows(call.self) >= 1) =>
                  ret.kind = "Bool" /\ ret.flag = BelowDiagonalZero(call.self)
    /\ call.op = "is_lower_triangular" =>
           /\ Rows(call.self) # Cols(call.self) => ret.kind = "Bool" /\ ~ret.flag
           /\ (is_square(call.self) /\ Rows(call.self) >= 1) =>
                  ret.kind = "Bool" /\ ret.flag = AboveDiagonalZero(call.self)

\* A square matrix whose entries off the main diagonal are all 0.
DiagonalMatrix(m) ==
    /\ Rows(m) = Cols(m)
    /\ BelowDiagonalZero(m)
    /\ AboveDiagonalZero(m)

\* C9: is_scalar is true iff the matrix is diagonal and its main-diagonal
\* entries all equal one value, whatever that value is; so it is true of
\* scalar(v, n) for every v and every n >= 1.  Stated of the matrices
\* is_square() holds of, with at least one row.
C9_IsScalarAnyDiagonalValue ==
    (call.op = "is_scalar" /\ is_square(call.self) /\ Rows(call.self) >= 1) =>
        /\ ret.kind = "Bool"
        /\ ret.flag = (/\ DiagonalMatrix(call.self)
                       /\ \A k \in 0..(Rows(call.self) - 1) :
                              Entry(call.self, k, k) = Entry(call.self, 0, 0))
        /\ (\E v \in Values : call.self = scalar(v, Rows(call.self))) => ret.flag

Predicates ==
    {"is_square", "is_column", "is_row", "is_diagonal", "is_upper_triangular",
     "is_lower_triangular", "is_scalar", "is_identity"}

SquareOnly ==
    {"is_square", "is_diagonal", "is_upper_triangular", "is_lower_triangular",
     "is_scalar", "is_identity"}

\* C10: the classification predicates are total: on every Matrix, the
\* 0 x 0 one of diagonal(vec![]) and the non-square ones included, each
\* returns a boolean without panicking, and the square-only ones return
\* false on a matrix that is not square.
C10_PredicatesAreTotal ==
    call.op \in Predicates =>
        /\ ret.kind = "Bool"
        /\ (call.op \in SquareOnly /\ Rows(call.self) # Cols(call.self)) => ~ret.flag

\* C12: set(i, j, v) with i >= rows or j >= columns returns false and
\* leaves buffer and dimensions unchanged; with indices in range it returns
\* true, get(i, j) then yields v, and every other entry and the dimensions
\* are unchanged; get(i, j) is absent exactly when i >= rows or
\* j >= columns, and is the entry (i, j) otherwise.
C12_SetAndGetAreBoundsChecked ==
    /\ call.op = "set" =>
           IF call.i >= Rows(call.self) \/ call.j >= Cols(call.self)
           THEN ret = RetBool(FALSE) /\ matrix = call.self
           ELSE /\ ret = RetBool(TRUE)
                /\ get(matrix, call.i, call.j) = Some(call.value)
                /\ matrix.dimensions = call.self.dimensions
                /\ Len(matrix.buffer) = Len(call.self.buffer)
                /\ \A a \in 0..(Rows(call.self) - 1), b \in 0..(Cols(call.self) - 1) :
                       <<a, b>> # <<call.i, call.j>> =>
                           Entry(matrix, a, b) = Entry(call.self, a, b)
    /\ call.op = "get" =>
           /\ matrix = call.self
           /\ IF call.i >= Rows(call.self) \/ call.j >= Cols(call.self)
              THEN ret.kind = "None"
              ELSE ret = Some(Entry(call.self, call.i, call.j))

\* C12 witness: set(2, 0, v) has changed the last entry of a 3 x 1 matrix.
C12_Witness ==
    /\ call.op = "set"
    /\ Rows(call.self) = 3 /\ Cols(call.self) = 1
    /\ call.i = 2 /\ call.j = 0
    /\ ret = RetBool(TRUE)
    /\ matrix # call.self
    /\ Entry(matrix, 2, 0) = call.value

\* The minor of a square m: row 0 and column k deleted.
Minor(m, k) ==
    LET n == Rows(m) - 1
    IN  Matrix([p \in 1..(n * n) |->
                   LET i == (p - 1) \div n
                       j == (p - 1) % n
                   IN  Entry(m, i + 1, IF j < k THEN j ELSE j + 1)],
               Square(n))

\* The cofactor expansion along row 0, with its base cases.
RECURSIVE CofactorExpansion(_)
RECURSIVE CofactorSum(_, _)
CofactorSum(m, k) ==
    IF k = 0 THEN F(0)
    ELSE FAdd(CofactorSum(m, k - 1),
              FMul(FMul(Entry(m, 0, k - 1), CofactorExpansion(Minor(m, k - 1))),
                   IF (k - 1) % 2 = 0 THEN F(1) ELSE F(-1)))

CofactorExpansion(m) ==
    CASE Rows(m) = 0 -> F(0)
      [] Rows(m) = 1 -> Entry(m, 0, 0)
      [] Rows(m) = 2 -> FSub(FMul(Entry(m, 0, 0), Entry(m, 1, 1)),
                             FMul(Entry(m, 0, 1), Entry(m, 1, 0)))
      [] OTHER -> CofactorSum(m, Rows(m))

\* The determinant of a matrix of integers, by the Leibniz formula: the sum
\* over the permutations p of sign(p) times the product of the entries (i, p[i]).
PermutationsOf(n) ==
    {p \in [0..(n - 1) -> 0..(n - 1)] : \A a, b \in 0..(n - 1) : a # b => p[a] # p[b]}

Sign(p, n) ==
    IF Cardinality({ab \in (0..(n - 1)) \X (0..(n - 1)) :
                       ab[1] < ab[2] /\ p[ab[1]] > p[ab[2]]}) % 2 = 0
    THEN 1 ELSE -1

RECURSIVE Product(_, _, _)
Product(m, p, i) ==
    IF i = 0 THEN 1 ELSE Product(m, p, i - 1) * Entry(m, i - 1, p[i - 1])[1]

RECURSIVE SumOver(_, _)
SumOver(ps, m) ==
    IF ps = {} THEN 0
    ELSE LET p == CHOOSE q \in ps : TRUE
         IN  Sign(p, Rows(m)) * Product(m, p, Rows(m)) + SumOver(ps \ {p}, m)

Leibniz(m) == SumOver(PermutationsOf(Rows(m)), m)

Finite(m) == \A k \in 1..Len(m.buffer) : m.buffer[k][2] = 1

\* What C13 says of a matrix that has as many rows as columns.
DeterminantAsClaimed(m) ==
    /\ ret = Some(CofactorExpansion(m))
    /\ (Rows(m) >= 1 /\ Finite(m)) => ret = Some(F(Leibniz(m)))
    /\ (Rows(m) >= 1 /\ m.buffer = identity(Rows(m)).buffer) => ret = Some(F(1))

\* C13: determinant_unoptimized returns None for every non-square matrix
\* and, for every square matrix, the cofactor expansion along row 0 with
\* base cases size 0 -> 0, size 1 -> the entry, size 2 -> a*d - b*c; so it
\* is the mathematical determinant for size >= 1, and 1 for identity(n),
\* n >= 1.  Square is rows = columns.
C13_DeterminantIsCofactorExpansion ==
    call.op = "determinant_unoptimized" =>
        IF Rows(call.self) # Cols(call.self)
        THEN ret.kind = "None"
        ELSE DeterminantAsClaimed(call.self)

\* The same with square read as is_square() reads it: the Square tag.
DeterminantOfSquareTag ==
    call.op = "determinant_unoptimized" =>
        IF ~is_square(call.self)
        THEN ret.kind = "None"
        ELSE DeterminantAsClaimed(call.self)

\* transposed() applied to what a transposed() call returned.
TransposedTwice == transposed(ret.matrix)

\* C11 as stated: for every constructible matrix M of shape (r, c),
\* transposed(M) has shape (c, r) with entry (j, i) equal to M's entry
\* (i, j), M itself is unchanged, and transposed(transposed(M)) == M.
C11_TransposedRoundTrip ==
    call.op = "transposed" =>
        /\ ret.kind = "Matrix"
        /\ Rows(ret.matrix) = Cols(call.self)
        /\ Cols(ret.matrix) = Rows(call.self)
        /\ LengthMatches(ret.matrix)
        /\ \A i \in 0..(Rows(call.self) - 1), j \in 0..(Cols(call.self) - 1) :
               Entry(ret.matrix, j, i) = Entry(call.self, i, j)
        /\ matrix = call.self
        /\ TransposedTwice.kind = "Matrix"
        /\ eq(TransposedTwice.matrix, call.self)

NoNaN(m) == \A k \in 1..Len(m.buffer) : m.buffer[k] # NaN

\* C11 amended: the shape, the entries and the unchanged receiver as
\* stated; transposed(transposed(M)) has the dimensions and, position by
\* position, the entries of M, and compares == to M when M has no NaN
\* entry.
C11_TransposedRoundTripNoNaN ==
    call.op = "transposed" =>
        /\ ret.kind = "Matrix"
        /\ Rows(ret.matrix) = Cols(call.self)
        /\ Cols(ret.matrix) = Rows(call.self)
        /\ LengthMatches(ret.matrix)
        /\ \A i \in 0..(Rows(call.self) - 1), j \in 0..(Cols(call.self) - 1) :
               Entry(ret.matrix, j, i) = Entry(call.self, i, j)
        /\ matrix = call.self
        /\ TransposedTwice.kind = "Matrix"
        /\ TransposedTwice.matrix = call.self
        /\ NoNaN(call.self) => eq(TransposedTwice.matrix, call.self)

\* C11 witness: transposed() of a 2 x 2 matrix that is not symmetric and
\* has no NaN entry has returned another matrix.
C11_Witness ==
    /\ call.op = "transposed"
    /\ Rows(call.self) = 2 /\ Cols(call.self) = 2
    /\ Entry(call.self, 0, 1) # Entry(call.self, 1, 0)
    /\ NoNaN(call.self)
    /\ ret.kind = "Matrix"
    /\ ret.matrix # call.self

====
